---- MODULE Spec2Model ----
(***************************************************************************)
(* Model of src/src/eth_rpc.rs: execute_contract_call (one read-only       *)
(* eth_call over an HTTP outcall), generate_request_id, determine_rpc_url  *)
(* and the registered response transform handle_transform.                 *)
(*                                                                         *)
(* Representation.                                                         *)
(*  - Rust String / &str values that the code only compares or            *)
(*    concatenates are TLA+ strings.  Hex text, which the code parses, is  *)
(*    a sequence of one-character strings.                                 *)
(*  - Vec<u8> is a sequence of numbers 0..255.                             *)
(*  - Option<T> is a sequence of length 0 (None) or 1 (Some(v)).           *)
(*  - A panic of the code ends the call; the call's slot records which     *)
(*    panic it was (the error kinds of the error taxonomy name the panic   *)
(*    sites).  State written before the panic (the thread-local counter)   *)
(*    stays written, as it does when a Rust panic unwinds.                 *)
(*  - Everything from line 85 to the .await of line 150 runs without a     *)
(*    suspension point, so it is one action (Call); the code after the     *)
(*    .await is another (Resume).  The host's work between the two is      *)
(*    HostFetch, HostTransform and HostError.                              *)
(*  - A call occupies a slot from its start until its caller has taken     *)
(*    the result (Return); the slot then serves another call.              *)
(*                                                                         *)
(* Specifications.                                                         *)
(*  - Spec: MaxInFlight callers at a time, over a few inputs and           *)
(*    responses of each kind; the interleavings are the subject.           *)
(*  - SpecSingle: one caller at a time, over every interface, query,       *)
(*    argument list, network and response of the model; the functions are  *)
(*    the subject.                                                         *)
(***************************************************************************)
EXTENDS Integers, Sequences, FiniteSets, TLC

\* ------------------------------------------------------------------------
\* Bounds of the model
\* ------------------------------------------------------------------------

\* Width in bits of the request id counter in the model (u64 in the code): the
\* counter wraps after 2^IdBits ids, so that a behaviour reaches the wrap.
IdBits == 1

\* Number of ids generate_request_id may hand out in one behaviour.
MaxIds == 3

\* Number of calls that can be in flight at the same time.
MaxInFlight == 2

IdModulus == 2 ^ IdBits

Slots == 1 .. MaxInFlight

\* ------------------------------------------------------------------------
\* Option and small helpers
\* ------------------------------------------------------------------------

None == << >>

Some(v) == << v >>

IsSome(o) == Len(o) = 1

Unwrap(o) == o[1]

Range(s) == { s[i] : i \in 1 .. Len(s) }

RECURSIVE Concat(_)
Concat(ss) == IF ss = << >> THEN << >> ELSE Head(ss) \o Concat(Tail(ss))

\* ------------------------------------------------------------------------
\* Bytes and hex text (crate::util::to_hex / from_hex)
\* ------------------------------------------------------------------------

HexDigits == << "0", "1", "2", "3", "4", "5", "6", "7",
                "8", "9", "a", "b", "c", "d", "e", "f" >>

HexDigit(n) == HexDigits[n + 1]

IsHexDigit(ch) == \E i \in 1 .. 16 : HexDigits[i] = ch

HexValue(ch) == (CHOOSE i \in 1 .. 16 : HexDigits[i] = ch) - 1

\* to_hex: "0x" followed by two lowercase hex digits per byte.
to_hex(bytes) ==
    << "0", "x" >> \o
    Concat([ i \in 1 .. Len(bytes) |->
               << HexDigit(bytes[i] \div 16), HexDigit(bytes[i] % 16) >> ])

\* from_hex: the bytes of a "0x"-prefixed hex text, or an error.
from_hex(text) ==
    IF /\ Len(text) >= 2
       /\ text[1] = "0"
       /\ text[2] = "x"
       /\ (Len(text) - 2) % 2 = 0
       /\ \A i \in 3 .. Len(text) : IsHexDigit(text[i])
    THEN [ ok |-> TRUE,
           bytes |-> [ i \in 1 .. ((Len(text) - 2) \div 2) |->
                         16 * HexValue(text[2 * i + 1]) + HexValue(text[2 * i + 2]) ] ]
    ELSE [ ok |-> FALSE, bytes |-> << >> ]

\* ------------------------------------------------------------------------
\* ABI values (ethers_core::abi::Token) and their encoding
\* ------------------------------------------------------------------------

\* Size in bytes of one ABI word.
WordLen == 32

\* Size in bytes of an address.
AddressLen == 20

Zeros(n) == [ i \in 1 .. n |-> 0 ]

\* The ABI word whose last byte is v and whose other bytes are zero.
Word(v) == Zeros(WordLen - 1) \o << v >>

TokenAddress(bytes) == [ kind |-> "address", val |-> bytes ]

TokenUint(word) == [ kind |-> "uint256", val |-> word ]

TokenBool(b) == [ kind |-> "bool", val |-> IF b THEN << 1 >> ELSE << 0 >> ]

\* Token::type_check against one parameter type.
type_check(token, param) == token.kind = param

\* Token::types_check: same length, each token of its parameter's type.
types_check(tokens, params) ==
    /\ Len(tokens) = Len(params)
    /\ \A i \in 1 .. Len(tokens) : type_check(tokens[i], params[i])

\* The 32-byte head of one (static) token.
EncodeToken(token) ==
    CASE token.kind = "address" -> Zeros(WordLen - AddressLen) \o token.val
      [] token.kind = "uint256" -> token.val
      [] token.kind = "bool"    -> Zeros(WordLen - 1) \o token.val

\* Reads one word as a value of the given type: Some(token), or None when the
\* word is no encoding of that type (a bool whose first 31 bytes are not zero).
DecodeWord(param, word) ==
    CASE param = "address" ->
            Some(TokenAddress(SubSeq(word, WordLen - AddressLen + 1, WordLen)))
      [] param = "uint256" -> Some(TokenUint(word))
      [] param = "bool" ->
            IF \A i \in 1 .. (WordLen - 1) : word[i] = 0
            THEN Some(TokenBool(word[WordLen] = 1))
            ELSE None

\* decode(types, data): one word per declared type, read in order.  Fails when
\* the data is shorter than the words the types need or a word is no encoding
\* of its type; bytes after the last word are ignored.
decode(params, data) ==
    LET words == [ i \in 1 .. Len(params) |->
                     IF i * WordLen <= Len(data)
                     THEN DecodeWord(params[i],
                                     SubSeq(data, (i - 1) * WordLen + 1, i * WordLen))
                     ELSE None ]
    IN  IF \A i \in 1 .. Len(params) : IsSome(words[i])
        THEN [ ok |-> TRUE, tokens |-> [ i \in 1 .. Len(params) |-> Unwrap(words[i]) ] ]
        ELSE [ ok |-> FALSE, tokens |-> << >> ]

\* ------------------------------------------------------------------------
\* Function descriptors and contract interfaces (ethers_core::abi::Contract)
\* ------------------------------------------------------------------------

Fn(name, inputs, outputs) == [ name |-> name, inputs |-> inputs, outputs |-> outputs ]

FnBalanceOf == Fn("balanceOf", << "address" >>, << "uint256" >>)

FnPaused == Fn("paused", << >>, << "bool" >>)

FnTotalSupply == Fn("totalSupply", << >>, << "uint256" >>)

FnPause == Fn("pause", << >>, << >>)

FnTransfer2 == Fn("transfer", << "address", "uint256" >>, << "bool" >>)

FnTransfer1 == Fn("transfer", << "address" >>, << "bool" >>)

RECURSIVE JoinTypes(_)
JoinTypes(types) ==
    IF types = << >> THEN ""
    ELSE IF Len(types) = 1 THEN types[1]
    ELSE types[1] \o "," \o JoinTypes(Tail(types))

\* FunctionExt::abi_signature: name(type1,type2,...), without the outputs.
abi_signature(func) == func.name \o "(" \o JoinTypes(func.inputs) \o ")"

\* short_signature: the first four bytes of the Keccak-256 hash of the
\* signature, tabulated for the signatures of the model.
short_signature(func) ==
    CASE abi_signature(func) = "balanceOf(address)"         -> << 112, 160, 130, 49 >>
      [] abi_signature(func) = "paused()"                   -> << 92, 151, 90, 187 >>
      [] abi_signature(func) = "pause()"                    -> << 132, 86, 203, 89 >>
      [] abi_signature(func) = "totalSupply()"              -> << 24, 22, 13, 221 >>
      [] abi_signature(func) = "transfer(address,uint256)"  -> << 169, 5, 156, 187 >>
      [] abi_signature(func) = "transfer(address)"          -> << 26, 105, 82, 48 >>

\* Function::encode_input: selector followed by the encoded tokens, or an
\* error when the tokens do not match the declared parameter types.
encode_input(func, tokens) ==
    IF types_check(tokens, func.inputs)
    THEN [ ok |-> TRUE,
           bytes |-> short_signature(func) \o
                     Concat([ i \in 1 .. Len(tokens) |-> EncodeToken(tokens[i]) ]) ]
    ELSE [ ok |-> FALSE, bytes |-> << >> ]

\* decode_output reading the data against the parameter types.
DecodeAgainstInputs(func, data) == decode(func.inputs, data)

\* Function::decode_output: decode against the declared return types.
decode_output(func, data) == decode(func.outputs, data)

\* Contract::functions_by_name: the overloads stored under the name, or an
\* error when the name is not a key of the map.  A contract is the sequence of
\* its functions in the map's iteration order (by name, then as loaded).
functions_by_name(contract_abi, name) ==
    LET overloads == SelectSeq(contract_abi, LAMBDA f : f.name = name)
    IN  [ ok |-> overloads # << >>, overloads |-> overloads ]

\* FindBySignature comparing with Function::signature(), which also lists
\* the outputs: name(inputs):(outputs).
FindByFullSignature(contract_abi, method_name) ==
    LET hits == SelectSeq(contract_abi,
                          LAMBDA f : method_name = abi_signature(f) \o ":(" \o
                                                   JoinTypes(f.outputs) \o ")")
    IN  IF hits = << >> THEN None ELSE Some(Head(hits))

\* Iterator::find over Contract::functions(): the first function whose
\* signature equals the query.
FindBySignature(contract_abi, method_name) ==
    LET hits == SelectSeq(contract_abi, LAMBDA f : method_name = abi_signature(f))
    IN  IF hits = << >> THEN None ELSE Some(Head(hits))

\* ------------------------------------------------------------------------
\* Errors: one kind per panic site of the code
\* ------------------------------------------------------------------------

Error(kind, code, message, candidates) ==
    [ kind |-> kind, code |-> code, message |-> message, candidates |-> candidates ]

NoError == Error("", 0, "", << >>)

Failure(kind) == Error(kind, 0, "", << >>)

\* ResolveFunction with the overloads arm taking the first overload.
ResolveFirstOverload(contract_abi, method_name) ==
    LET byName == functions_by_name(contract_abi, method_name)
        found  == FindBySignature(contract_abi, method_name)
    IN  IF byName.ok
        THEN [ ok |-> TRUE, func |-> Some(byName.overloads[1]), error |-> NoError ]
        ELSE IF IsSome(found)
             THEN [ ok |-> TRUE, func |-> found, error |-> NoError ]
             ELSE [ ok |-> FALSE, func |-> None, error |-> Failure("FunctionNotFound") ]

\* Lines 85-100: the function the call will use, or the panic.
ResolveFunction(contract_abi, method_name) ==
    LET byName == functions_by_name(contract_abi, method_name)
        found  == FindBySignature(contract_abi, method_name)
    IN  IF byName.ok
        THEN IF Len(byName.overloads) = 1
             THEN [ ok |-> TRUE, func |-> Some(byName.overloads[1]), error |-> NoError ]
             ELSE [ ok |-> FALSE, func |-> None,
                    error |-> Error("AmbiguousFunction", Len(byName.overloads), "",
                                    [ i \in 1 .. Len(byName.overloads) |->
                                        abi_signature(byName.overloads[i]) ]) ]
        ELSE IF IsSome(found)
             THEN [ ok |-> TRUE, func |-> found, error |-> NoError ]
             ELSE [ ok |-> FALSE, func |-> None, error |-> Failure("FunctionNotFound") ]

\* ------------------------------------------------------------------------
\* Network resolution
\* ------------------------------------------------------------------------

\* A URL is kept as its parts: scheme, "://", host, path; UrlText is the text.
UrlText(url) == url[1] \o url[2] \o url[3] \o url[4]

\* Url::host_str of the parsed URL.
host_str(url) == url[3]

\* determine_rpc_url falling back to the mainnet endpoint.
DetermineUrlWithDefault(network) ==
    CASE network = "goerli" ->
            [ ok |-> TRUE, url |-> << "https", "://", "ethereum-goerli.publicnode.com", "" >> ]
      [] network = "sepolia" ->
            [ ok |-> TRUE, url |-> << "https", "://", "rpc.sepolia.org", "" >> ]
      [] OTHER ->
            [ ok |-> TRUE, url |-> << "https", "://", "cloudflare-eth.com", "/v1/mainnet" >> ]

\* Lines 67-74.
determine_rpc_url(network) ==
    CASE network = "mainnet" \/ network = "ethereum" ->
            [ ok |-> TRUE, url |-> << "https", "://", "cloudflare-eth.com", "/v1/mainnet" >> ]
      [] network = "goerli" ->
            [ ok |-> TRUE, url |-> << "https", "://", "ethereum-goerli.publicnode.com", "" >> ]
      [] network = "sepolia" ->
            [ ok |-> TRUE, url |-> << "https", "://", "rpc.sepolia.org", "" >> ]
      [] OTHER ->
            [ ok |-> FALSE, url |-> << >> ]

\* ------------------------------------------------------------------------
\* HTTP responses, the response transform, and the JSON-RPC response
\* ------------------------------------------------------------------------

HttpHeader(name, value) == [ name |-> name, value |-> value ]

HttpResponse(status, headers, body) ==
    [ status |-> status, headers |-> headers, body |-> body ]

RpcErrorDetail(code, message) == [ error_code |-> code, error_message |-> message ]

RpcResponse(outcome, rpc_error) == [ outcome |-> outcome, rpc_error |-> rpc_error ]

\* A response body: bytes that are valid UTF-8 or not, holding a JSON text
\* that deserializes into an RpcResponse or not.
Body(utf8, json, rpc) == [ utf8 |-> utf8, json |-> json, rpc |-> rpc ]

\* TransformArgs: the raw response and the context the request registered
\* (line 145: empty).
TransformArgs(r) == [ response |-> r, context |-> << >> ]

\* handle_transform dropping the body of a response that is not a 200.
TransformDropsErrorBody(args) ==
    HttpResponse(args.response.status, << >>,
                 IF args.response.status = 200 THEN args.response.body
                 ELSE Body(TRUE, FALSE, RpcResponse(None, None)))

\* handle_transform keeping the headers.
TransformKeepsHeaders(args) ==
    HttpResponse(args.response.status, args.response.headers, args.response.body)

\* Lines 171-179.
handle_transform(args) ==
    HttpResponse(args.response.status, << >>, args.response.body)

\* Lines 156-158: from_utf8 of the body, then serde_json::from_str.
ParseBody(body) ==
    IF body.utf8 /\ body.json
    THEN [ ok |-> TRUE, rpc |-> body.rpc ]
    ELSE [ ok |-> FALSE, rpc |-> RpcResponse(None, None) ]

\* ------------------------------------------------------------------------
\* The request id counter
\* ------------------------------------------------------------------------

\* generate_request_id without the store of line 61.
GenerateWithoutStore(counter) == [ id |-> counter, next |-> counter ]

\* generate_request_id returning the incremented value.
GenerateIncrementFirst(counter) ==
    [ id |-> (counter + 1) % IdModulus, next |-> (counter + 1) % IdModulus ]

\* Lines 54-64, on the counter value: the id returned and the value stored.
generate_request_id(counter) ==
    [ id |-> counter, next |-> (counter + 1) % IdModulus ]

\* ------------------------------------------------------------------------
\* The request
\* ------------------------------------------------------------------------

EthCallData(recipient, payload) == [ recipient |-> recipient, payload |-> payload ]

\* RpcRequest with the two fields of the call data exchanged.
RpcRequestFieldsSwapped(request_id, address, encoded_data) ==
    [ request_id |-> request_id,
      version    |-> "2.0",
      action     |-> "eth_call",
      parameters |-> << EthCallData(to_hex(encoded_data), address), "latest" >> ]

\* Lines 106-117: the JSON-RPC request of a call.
RpcRequest(request_id, address, encoded_data) ==
    [ request_id |-> request_id,
      version    |-> "2.0",
      action     |-> "eth_call",
      parameters |-> << EthCallData(address, to_hex(encoded_data)), "latest" >> ]

\* Size limit the code asks the host to enforce on the response.
MAX_BYTES == 2048

\* Lines 125-147: the outcall argument.  The body is the request whose JSON
\* text the code sends.
CanisterHttpRequestArgument(url, rpc_payload) ==
    [ url                |-> UrlText(url),
      max_response_bytes |-> Some(MAX_BYTES),
      method             |-> "POST",
      headers            |-> << HttpHeader("Content-Type", "application/json"),
                                HttpHeader("Host", host_str(url)) >>,
      body               |-> Some(rpc_payload),
      transform          |-> Some("handle_transform") ]

\* What a call returned: the decoded values, or the error it ended with.
Returned(values) == [ ok |-> TRUE, values |-> values, error |-> NoError ]

Panicked(error) == [ ok |-> FALSE, values |-> << >>, error |-> error ]

\* Building with the network resolved before the request id is drawn: a call
\* on an unsupported network leaves the counter as it found it.
BuildingUrlBeforeId(in, counter) ==
    LET rf    == ResolveFunction(in.contract_abi, in.method_name)
        enc   == encode_input(Unwrap(rf.func), in.arguments)
        gen   == generate_request_id(counter)
        req   == RpcRequest(gen.id, in.address, enc.bytes)
        url   == determine_rpc_url(in.network)
        blank == [ func |-> None, http |-> None, counter |-> counter, drawn |-> 0 ]
    IN  IF ~ rf.ok
        THEN [ blank EXCEPT !.func = None ] @@
             [ result |-> Some(Panicked(rf.error)), steps |-> << "resolve" >> ]
        ELSE IF ~ enc.ok
        THEN [ blank EXCEPT !.func = rf.func ] @@
             [ result |-> Some(Panicked(Failure("EncodingError"))),
               steps |-> << "resolve", "encode" >> ]
        ELSE IF ~ url.ok
        THEN [ blank EXCEPT !.func = rf.func ] @@
             [ result |-> Some(Panicked(Failure("UnsupportedNetwork"))),
               steps |-> << "resolve", "encode", "url" >> ]
        ELSE [ blank EXCEPT !.func = rf.func,
                            !.http = Some(CanisterHttpRequestArgument(url.url, req)),
                            !.counter = gen.next, !.drawn = 1 ] @@
             [ result |-> None,
               steps |-> << "resolve", "encode", "url", "request_id", "send" >> ]

\* Lines 85-147, for the inputs of one call and the counter value it finds:
\* the function resolved, the request built, the outcall argument, the new
\* counter value, the steps taken, and the panic if there was one.
Building(in, counter) ==
    LET rf    == ResolveFunction(in.contract_abi, in.method_name)
        enc   == encode_input(Unwrap(rf.func), in.arguments)
        gen   == generate_request_id(counter)
        req   == RpcRequest(gen.id, in.address, enc.bytes)
        url   == determine_rpc_url(in.network)
        blank == [ func |-> None, http |-> None, counter |-> counter, drawn |-> 0 ]
    IN  IF ~ rf.ok
        THEN [ blank EXCEPT !.func = None ] @@
             [ result |-> Some(Panicked(rf.error)), steps |-> << "resolve" >> ]
        ELSE IF ~ enc.ok
        THEN [ blank EXCEPT !.func = rf.func ] @@
             [ result |-> Some(Panicked(Failure("EncodingError"))),
               steps |-> << "resolve", "encode" >> ]
        ELSE IF ~ url.ok
        THEN [ blank EXCEPT !.func = rf.func,
                            !.counter = gen.next, !.drawn = 1 ] @@
             [ result |-> Some(Panicked(Failure("UnsupportedNetwork"))),
               steps |-> << "resolve", "encode", "request_id", "url" >> ]
        ELSE [ blank EXCEPT !.func = rf.func,
                            !.http = Some(CanisterHttpRequestArgument(url.url, req)),
                            !.counter = gen.next, !.drawn = 1 ] @@
             [ result |-> None,
               steps |-> << "resolve", "encode", "request_id", "url", "send" >> ]

\* Decoding looking at the outcome before the error: an outcome that is
\* present is decoded whatever rpc_error holds.
DecodingOutcomeFirst(func, resp) ==
    LET parsed == ParseBody(resp.body)
        rpc    == parsed.rpc
        hex    == from_hex(Unwrap(rpc.outcome))
        out    == decode_output(func, hex.bytes)
    IN  IF ~ parsed.ok
        THEN [ result |-> Panicked(Failure("MalformedResponse")),
               steps |-> << "parse" >> ]
        ELSE IF ~ IsSome(rpc.outcome)
        THEN IF IsSome(rpc.rpc_error)
             THEN [ result |-> Panicked(Error("RpcError",
                                              Unwrap(rpc.rpc_error).error_code,
                                              Unwrap(rpc.rpc_error).error_message, << >>)),
                    steps |-> << "parse" >> ]
             ELSE [ result |-> Panicked(Failure("MissingOutcome")),
                    steps |-> << "parse" >> ]
        ELSE IF ~ hex.ok
        THEN [ result |-> Panicked(Failure("InvalidHex")),
               steps |-> << "parse", "from_hex" >> ]
        ELSE IF ~ out.ok
        THEN [ result |-> Panicked(Failure("DecodingError")),
               steps |-> << "parse", "from_hex", "decode_output" >> ]
        ELSE [ result |-> Returned(out.tokens),
               steps |-> << "parse", "from_hex", "decode_output" >> ]

\* Decoding returning an empty list of values when the return data does not
\* decode against the function's return types.
DecodingIgnoresDecodeError(func, resp) ==
    LET parsed == ParseBody(resp.body)
        rpc    == parsed.rpc
        hex    == from_hex(Unwrap(rpc.outcome))
        out    == decode_output(func, hex.bytes)
    IN  IF ~ parsed.ok
        THEN [ result |-> Panicked(Failure("MalformedResponse")),
               steps |-> << "parse" >> ]
        ELSE IF IsSome(rpc.rpc_error)
        THEN [ result |-> Panicked(Error("RpcError",
                                         Unwrap(rpc.rpc_error).error_code,
                                         Unwrap(rpc.rpc_error).error_message, << >>)),
               steps |-> << "parse" >> ]
        ELSE IF ~ IsSome(rpc.outcome)
        THEN [ result |-> Panicked(Failure("MissingOutcome")),
               steps |-> << "parse" >> ]
        ELSE IF ~ hex.ok
        THEN [ result |-> Panicked(Failure("InvalidHex")),
               steps |-> << "parse", "from_hex" >> ]
        ELSE [ result |-> Returned(IF out.ok THEN out.tokens ELSE << >>),
               steps |-> << "parse", "from_hex", "decode_output" >> ]

\* Decoding reading an absent outcome as empty return data ("0x") instead of
\* failing on it.
DecodingMissingAsEmpty(func, resp) ==
    LET parsed == ParseBody(resp.body)
        rpc    == parsed.rpc
        hex    == from_hex(IF IsSome(rpc.outcome) THEN Unwrap(rpc.outcome)
                                                  ELSE << "0", "x" >>)
        out    == decode_output(func, hex.bytes)
    IN  IF ~ parsed.ok
        THEN [ result |-> Panicked(Failure("MalformedResponse")),
               steps |-> << "parse" >> ]
        ELSE IF IsSome(rpc.rpc_error)
        THEN [ result |-> Panicked(Error("RpcError",
                                         Unwrap(rpc.rpc_error).error_code,
                                         Unwrap(rpc.rpc_error).error_message, << >>)),
               steps |-> << "parse" >> ]
        ELSE IF ~ hex.ok
        THEN [ result |-> Panicked(Failure("InvalidHex")),
               steps |-> << "parse", "from_hex" >> ]
        ELSE IF ~ out.ok
        THEN [ result |-> Panicked(Failure("DecodingError")),
               steps |-> << "parse", "from_hex", "decode_output" >> ]
        ELSE [ result |-> Returned(out.tokens),
               steps |-> << "parse", "from_hex", "decode_output" >> ]

\* Lines 156-168, for the function resolved before the await and the response
\* the host delivered: what the call returns and the steps taken.
Decoding(func, resp) ==
    LET parsed == ParseBody(resp.body)
        rpc    == parsed.rpc
        hex    == from_hex(Unwrap(rpc.outcome))
        out    == decode_output(func, hex.bytes)
    IN  IF ~ parsed.ok
        THEN [ result |-> Panicked(Failure("MalformedResponse")),
               steps |-> << "parse" >> ]
        ELSE IF IsSome(rpc.rpc_error)
        THEN [ result |-> Panicked(Error("RpcError",
                                         Unwrap(rpc.rpc_error).error_code,
                                         Unwrap(rpc.rpc_error).error_message, << >>)),
               steps |-> << "parse" >> ]
        ELSE IF ~ IsSome(rpc.outcome)
        THEN [ result |-> Panicked(Failure("MissingOutcome")),
               steps |-> << "parse" >> ]
        ELSE IF ~ hex.ok
        THEN [ result |-> Panicked(Failure("InvalidHex")),
               steps |-> << "parse", "from_hex" >> ]
        ELSE IF ~ out.ok
        THEN [ result |-> Panicked(Failure("DecodingError")),
               steps |-> << "parse", "from_hex", "decode_output" >> ]
        ELSE [ result |-> Returned(out.tokens),
               steps |-> << "parse", "from_hex", "decode_output" >> ]

\* ------------------------------------------------------------------------
\* Inputs of the model
\* ------------------------------------------------------------------------

\* Contract addresses callers pass.
AddressA == "0xdac17f958d2ee523a2206206994597c13d831ec7"

AddressB == "0x6b175474e89094c44da98b954eedeac495271d0f"

\* An account, as the 20 bytes of its address.
Account(v) == Zeros(AddressLen - 1) \o << v >>

\* Contract interfaces, each in the iteration order of its function map.  They
\* are interfaces as an ABI describes them: a name is an identifier, and the
\* overloads of a name differ in their parameter types.
AbiSingle == << FnBalanceOf >>

AbiOverloaded == << FnBalanceOf, FnPaused, FnTotalSupply, FnTransfer2, FnTransfer1 >>

AbiTransfers == << FnTransfer2, FnTransfer1 >>

AbiPlain == << FnBalanceOf, FnPaused, FnTransfer2 >>

AbiEmpty == << >>

Interfaces == { AbiSingle, AbiOverloaded, AbiTransfers, AbiPlain, AbiEmpty }

\* Every function of some interface.
Functions == UNION { Range(abi) : abi \in Interfaces }

\* Query strings: plain names, exact signatures, and near misses.
Queries ==
    { f.name : f \in Functions } \cup { abi_signature(f) : f \in Functions } \cup
    { "", "approve", "transfer(address, uint256)", "transfer(uint256)", "balanceOf(" }

ArgumentLists ==
    { << >>,
      << TokenAddress(Account(1)) >>,
      << TokenAddress(Account(2)), TokenUint(Word(7)) >>,
      << TokenUint(Word(7)) >> }

Networks == { "mainnet", "ethereum", "goerli", "sepolia", "polygon", "Mainnet", "" }

CallInput(network, address, contract_abi, method_name, arguments) ==
    [ network |-> network, address |-> address, contract_abi |-> contract_abi,
      method_name |-> method_name, arguments |-> arguments ]

\* The calls of one caller at a time: every interface, query and argument
\* list on one network, and every network and address for one function that
\* resolves and one that does not.
AllInputs ==
    { CallInput("mainnet", AddressA, abi, q, args) :
        abi \in Interfaces, q \in Queries, args \in ArgumentLists } \cup
    { CallInput(n, a, AbiOverloaded, q, << >>) :
        n \in Networks, a \in { AddressA, AddressB }, q \in { "paused", "approve" } }

\* The calls concurrent callers make: one of each way lines 85-123 end, and
\* two that reach the outcall with functions of different return types.
ConcurrentInputs ==
    { CallInput("mainnet", AddressA, AbiOverloaded, "totalSupply", << >>),
      CallInput("sepolia", AddressB, AbiOverloaded, "paused", << >>),
      CallInput("polygon", AddressB, AbiOverloaded, "paused", << >>),
      CallInput("mainnet", AddressA, AbiOverloaded, "transfer", << >>),
      CallInput("mainnet", AddressA, AbiOverloaded, "balanceOf", << >>),
      CallInput("mainnet", AddressA, AbiOverloaded, "approve", << >>) }

\* Outcome fields a remote server sends.
Outcomes ==
    { to_hex(Word(1)), to_hex(Word(0)), to_hex(Word(2)),
      to_hex(<< 1 >> \o Zeros(WordLen - 2) \o << 1 >>),
      to_hex(Word(1) \o Word(9)),
      to_hex(<< 0, 1 >>), << "0", "x" >>, << "0", "x", "0", "g" >>, << "0", "1" >> }

RpcErrors ==
    { RpcErrorDetail(-32000, "execution reverted"), RpcErrorDetail(3, "") }

RpcResponses ==
    { RpcResponse(o, e) :
        o \in { None } \cup { Some(h) : h \in Outcomes },
        e \in { None } \cup { Some(d) : d \in RpcErrors } }

Bodies ==
    { Body(TRUE, TRUE, r) : r \in RpcResponses } \cup
    { Body(FALSE, FALSE, RpcResponse(None, None)),
      Body(TRUE, FALSE, RpcResponse(None, None)) }

HeaderLists ==
    { << >>,
      << HttpHeader("Date", "Thu, 05 Nov 2026 11:00:00 GMT") >>,
      << HttpHeader("Date", "Thu, 05 Nov 2026 11:00:01 GMT"),
         HttpHeader("Server", "cloudflare") >> }

Statuses == { 200, 500 }

\* Bodies sent under several statuses and header lists.
RepeatedBodies ==
    { Body(TRUE, TRUE, RpcResponse(Some(to_hex(Word(1))), None)),
      Body(TRUE, TRUE, RpcResponse(None, Some(RpcErrorDetail(-32000, "execution reverted")))),
      Body(TRUE, FALSE, RpcResponse(None, None)) }

AllResponses ==
    { HttpResponse(200, << >>, b) : b \in Bodies } \cup
    { HttpResponse(st, h, b) : st \in Statuses, h \in HeaderLists, b \in RepeatedBodies }

ConcurrentResponses ==
    { HttpResponse(200, << HttpHeader("Date", "Thu, 05 Nov 2026 11:00:00 GMT") >>,
                   Body(TRUE, TRUE, r)) :
        r \in { RpcResponse(Some(to_hex(Word(1))), None),
                RpcResponse(None, Some(RpcErrorDetail(-32000, "execution reverted"))) } }

\* What the host reports when the outcall fails: (RejectionCode, message).
Rejections ==
    { << "SysTransient", "timeout" >>, << "SysFatal", "body exceeds size limit" >> }

ConcurrentRejections == { << "SysTransient", "timeout" >> }

\* ------------------------------------------------------------------------
\* State
\* ------------------------------------------------------------------------

VARIABLES
    REQUEST_ID,  \* the thread-local counter of generate_request_id
    generated,   \* how many times generate_request_id has been invoked
    pc,          \* per slot: where the call in the slot is
    input,       \* per slot: the arguments of the call (Option)
    function,    \* per slot: the local `function` (Option)
    http,        \* per slot: the outcall argument given to http_request (Option)
    raw,         \* per slot: the response the remote server gave the host (Option)
    response,    \* per slot: the response the host gave back to the call (Option)
    result,      \* per slot: what the call returned or how it panicked (Option)
    steps,       \* per slot: the steps the call has executed, in order
    reply        \* what handle_transform last returned to the host when the
                 \* host invoked it as a query, with the arguments (Option)

vars == << REQUEST_ID, generated, pc, input, function, http, raw,
           response, result, steps, reply >>

Init ==
    /\ REQUEST_ID = 0
    /\ generated = 0
    /\ pc = [ c \in Slots |-> "Idle" ]
    /\ input = [ c \in Slots |-> None ]
    /\ function = [ c \in Slots |-> None ]
    /\ http = [ c \in Slots |-> None ]
    /\ raw = [ c \in Slots |-> None ]
    /\ response = [ c \in Slots |-> None ]
    /\ result = [ c \in Slots |-> None ]
    /\ steps = [ c \in Slots |-> << >> ]
    /\ reply = None

\* ------------------------------------------------------------------------
\* Actions
\* ------------------------------------------------------------------------

\* execute_contract_call from its entry to the .await of line 150 (or to the
\* panic that ends it before), for a caller passing one of `inputs`.
Call(c, inputs) ==
    /\ pc[c] = "Idle"
    /\ generated < MaxIds
    /\ \E in \in inputs :
       LET b == Building(in, REQUEST_ID)
       IN  /\ REQUEST_ID' = b.counter
           /\ generated' = generated + b.drawn
           /\ input' = [ input EXCEPT ![c] = Some(in) ]
           /\ function' = [ function EXCEPT ![c] = b.func ]
           /\ http' = [ http EXCEPT ![c] = b.http ]
           /\ result' = [ result EXCEPT ![c] = b.result ]
           /\ steps' = [ steps EXCEPT ![c] = b.steps ]
           /\ pc' = [ pc EXCEPT ![c] = IF IsSome(b.result) THEN "Failed"
                                        ELSE "AwaitingResponse" ]
    /\ UNCHANGED << reply, raw, response >>

\* The host's networking layer obtains the remote server's response.
HostFetch(c, responses) ==
    /\ pc[c] = "AwaitingResponse"
    /\ \E r \in responses : raw' = [ raw EXCEPT ![c] = Some(r) ]
    /\ pc' = [ pc EXCEPT ![c] = "Transforming" ]
    /\ UNCHANGED << reply, REQUEST_ID, generated, input, function, http,
                    response, result, steps >>

\* The transform delivering nothing to the call: the call keeps waiting for
\* the transformed response.
HostTransformNeverDelivers(c) ==
    /\ pc[c] = "Transforming"
    /\ response' = [ response EXCEPT ![c] =
                       Some(handle_transform(TransformArgs(Unwrap(raw[c])))) ]
    /\ UNCHANGED << reply, REQUEST_ID, generated, pc, input, function, http, raw,
                    result, steps >>

\* The host runs the transform the request names on the raw response and
\* hands the transformed response to the suspended call.
HostTransform(c) ==
    /\ pc[c] = "Transforming"
    /\ response' = [ response EXCEPT ![c] =
                       Some(handle_transform(TransformArgs(Unwrap(raw[c])))) ]
    /\ pc' = [ pc EXCEPT ![c] = "Decoding" ]
    /\ UNCHANGED << reply, REQUEST_ID, generated, input, function, http,
                    raw, result, steps >>

\* A failed outcall dropping the call: the slot is freed with no result
\* given to the caller.
HostErrorCancels(c, rejections) ==
    /\ pc[c] = "AwaitingResponse"
    /\ \E rejection \in rejections :
         result' = [ result EXCEPT ![c] = None ]
    /\ pc' = [ pc EXCEPT ![c] = "Idle" ]
    /\ input' = [ input EXCEPT ![c] = None ]
    /\ function' = [ function EXCEPT ![c] = None ]
    /\ http' = [ http EXCEPT ![c] = None ]
    /\ steps' = [ steps EXCEPT ![c] = << >> ]
    /\ UNCHANGED << reply, REQUEST_ID, generated, raw, response >>

\* A transport failure answered by issuing the request again.
HostErrorRetries(c, rejections) ==
    /\ pc[c] = "AwaitingResponse"
    /\ \E rejection \in rejections :
         result' = [ result EXCEPT ![c] = None ]
    /\ steps' = [ steps EXCEPT ![c] = @ \o << "send" >> ]
    /\ UNCHANGED << reply, REQUEST_ID, generated, pc, input, function, http,
                    raw, response >>

\* The host reports a failed outcall: the match of lines 150-153 panics.
HostError(c, rejections) ==
    /\ pc[c] = "AwaitingResponse"
    /\ \E rejection \in rejections :
         result' = [ result EXCEPT ![c] =
                       Some(Panicked(Error("HttpTransportError", 0,
                                           rejection[2], << rejection[1] >>))) ]
    /\ pc' = [ pc EXCEPT ![c] = "Failed" ]
    /\ UNCHANGED << reply, REQUEST_ID, generated, input, function, http,
                    raw, response, steps >>

\* The call resumed with the function the latest call resolved, as if the
\* resolved function were kept in one place shared by the calls.
ResumeWithLatestFunction(c) ==
    /\ pc[c] = "Decoding"
    /\ LET latest == CHOOSE s \in Slots :
                         /\ IsSome(function[s])
                         /\ \A e \in Slots : IsSome(function[e]) => e <= s
           d == Decoding(Unwrap(function[latest]), Unwrap(response[c]))
       IN  /\ result' = [ result EXCEPT ![c] = Some(d.result) ]
           /\ steps' = [ steps EXCEPT ![c] = @ \o d.steps ]
           /\ pc' = [ pc EXCEPT ![c] = IF d.result.ok THEN "Done" ELSE "Failed" ]
    /\ UNCHANGED << reply, REQUEST_ID, generated, input, function, http,
                    raw, response >>

\* execute_contract_call from the Ok arm of line 151 to its end.
Resume(c) ==
    /\ pc[c] = "Decoding"
    /\ LET d == Decoding(Unwrap(function[c]), Unwrap(response[c]))
       IN  /\ result' = [ result EXCEPT ![c] = Some(d.result) ]
           /\ steps' = [ steps EXCEPT ![c] = @ \o d.steps ]
           /\ pc' = [ pc EXCEPT ![c] = IF d.result.ok THEN "Done" ELSE "Failed" ]
    /\ UNCHANGED << reply, REQUEST_ID, generated, input, function, http,
                    raw, response >>

\* handle_transform drawing a request id to tag the response it returns.
TransformQueryDrawsId(args) ==
    /\ reply' = Some([ args |-> args, out |-> handle_transform(args) ])
    /\ REQUEST_ID' = generate_request_id(REQUEST_ID).next
    /\ UNCHANGED << generated, pc, input, function, http, raw, response,
                    result, steps >>

\* The host invokes the query handle_transform on a raw response of its own
\* choosing, outside any call's flow (once per replica per outcall); the
\* function's return value goes back to the host.
TransformQuery(args) ==
    /\ reply' = Some([ args |-> args, out |-> handle_transform(args) ])
    /\ UNCHANGED << REQUEST_ID, generated, pc, input, function, http, raw,
                    response, result, steps >>

\* The caller has taken the call's result; the slot is free for another call.
Return(c) ==
    /\ pc[c] \in { "Done", "Failed" }
    /\ pc' = [ pc EXCEPT ![c] = "Idle" ]
    /\ input' = [ input EXCEPT ![c] = None ]
    /\ function' = [ function EXCEPT ![c] = None ]
    /\ http' = [ http EXCEPT ![c] = None ]
    /\ raw' = [ raw EXCEPT ![c] = None ]
    /\ response' = [ response EXCEPT ![c] = None ]
    /\ result' = [ result EXCEPT ![c] = None ]
    /\ steps' = [ steps EXCEPT ![c] = << >> ]
    /\ UNCHANGED << reply, REQUEST_ID, generated >>

\* ------------------------------------------------------------------------
\* Specifications
\* ------------------------------------------------------------------------

\* Up to MaxInFlight calls at a time, interleaved with the host's steps.
Next ==
    \E c \in Slots :
        \/ Call(c, ConcurrentInputs)
        \/ HostFetch(c, ConcurrentResponses)
        \/ HostTransform(c)
        \/ HostError(c, ConcurrentRejections)
        \/ Resume(c)
        \/ Return(c)

Spec == Init /\ [][Next]_vars

\* Concurrent calls under a host that answers: a call that reaches the
\* outcall, for a function without return values, and a call that fails
\* before it; a response with empty return data and one with an error.
AbiPausable == << FnPause, FnPaused >>

ProgressInputs ==
    { CallInput("mainnet", AddressA, AbiPausable, "pause", << >>),
      CallInput("mainnet", AddressA, AbiPausable, "unpause", << >>) }

ProgressResponses ==
    { HttpResponse(200, << >>, Body(TRUE, TRUE, r)) :
        r \in { RpcResponse(Some(<< "0", "x" >>), None),
                RpcResponse(None, Some(RpcErrorDetail(-32000, "execution reverted"))) } }

NextProgress ==
    \E c \in Slots :
        \/ Call(c, ProgressInputs)
        \/ HostFetch(c, ProgressResponses)
        \/ HostTransform(c)
        \/ HostError(c, ConcurrentRejections)
        \/ Resume(c)
        \/ Return(c)

\* The host answers every outcall, with a response or with an error, applies
\* the transform to a fetched response and resumes the call it answered.
Fairness ==
    \A c \in Slots :
        /\ WF_vars(HostFetch(c, ProgressResponses) \/ HostError(c, ConcurrentRejections))
        /\ WF_vars(HostTransform(c))
        /\ WF_vars(Resume(c))

FairSpec == Init /\ [][NextProgress]_vars /\ Fairness

\* Raw responses the host hands to the transform when it invokes it itself.
QueryResponses ==
    { HttpResponse(200, << HttpHeader("Date", "Thu, 05 Nov 2026 11:00:00 GMT") >>,
                   Body(TRUE, TRUE, RpcResponse(Some(<< "0", "x" >>), None))),
      HttpResponse(500, << HttpHeader("Date", "Thu, 05 Nov 2026 11:00:01 GMT"),
                           HttpHeader("Server", "cloudflare") >>,
                   Body(FALSE, FALSE, RpcResponse(None, None))) }

\* Concurrent calls, and the host invoking the transform at any point between
\* their steps.
NextQuery ==
    \/ NextProgress
    \/ \E r \in QueryResponses : TransformQuery(TransformArgs(r))

SpecQuery == Init /\ [][NextQuery]_vars

\* One call at a time, over every input and every response of the model.
NextSingle ==
    \/ Call(1, AllInputs)
    \/ HostFetch(1, AllResponses)
    \/ HostTransform(1)
    \/ HostError(1, Rejections)
    \/ Resume(1)
    \/ Return(1)

SpecSingle == Init /\ [][NextSingle]_vars

\* ------------------------------------------------------------------------
\* Properties
\* ------------------------------------------------------------------------

\* The slots whose call has run lines 85-100.
Started == { c \in Slots : IsSome(input[c]) }

\* The slots whose call is suspended at the .await of line 150.
Suspended == { c \in Slots : pc[c] \in { "AwaitingResponse", "Transforming", "Decoding" } }

\* The slots whose call has ended and not yet been taken by its caller.
Ended == { c \in Slots : pc[c] \in { "Done", "Failed" } }

\* The positions of the functions of an interface that carry a name.
Named(contract_abi, name) == { i \in 1 .. Len(contract_abi) : contract_abi[i].name = name }

\* The request a slot's call sent.
RequestOf(c) == Unwrap(Unwrap(http[c]).body)

\* C1: function resolution never picks among candidates.  A call has a
\* resolved function only if that function is the only one of the interface
\* with the queried name or its canonical signature equals the query; when two
\* or more functions carry the queried name the call fails with
\* AmbiguousFunction listing the signatures of exactly those functions; when no
\* function carries the name and no signature equals the query it fails with
\* FunctionNotFound.
C1_ResolutionNeverPicks ==
    \A c \in Started :
        LET abi == Unwrap(input[c]).contract_abi
            q   == Unwrap(input[c]).method_name
            n   == Named(abi, q)
        IN  /\ IsSome(function[c]) =>
                 LET f == Unwrap(function[c])
                 IN  /\ f \in Range(abi)
                     /\ \/ f.name = q /\ Cardinality(n) = 1
                        \/ abi_signature(f) = q
            /\ Cardinality(n) >= 2 =>
                 /\ function[c] = None
                 /\ pc[c] = "Failed"
                 /\ Unwrap(result[c]).error.kind = "AmbiguousFunction"
                 /\ Unwrap(result[c]).error.code = Cardinality(n)
                 /\ Range(Unwrap(result[c]).error.candidates) =
                        { abi_signature(abi[i]) : i \in n }
            /\ (n = {} /\ \A f \in Range(abi) : abi_signature(f) # q) =>
                 /\ function[c] = None
                 /\ pc[c] = "Failed"
                 /\ Unwrap(result[c]).error = Failure("FunctionNotFound")

\* A call by a name that two functions carry has failed as ambiguous.
C1_Witness ==
    /\ pc[1] = "Failed"
    /\ Unwrap(input[1]).contract_abi = AbiTransfers
    /\ Unwrap(input[1]).method_name = "transfer"
    /\ Unwrap(result[1]).error.kind = "AmbiguousFunction"
    /\ Unwrap(result[1]).error.candidates = << "transfer(address,uint256)", "transfer(address)" >>

\* C2: a query equal to the canonical signature of a function of the
\* interface resolves to exactly that function, overloaded or not.
C2_ExactSignatureResolves ==
    \A c \in Started :
        \A f \in Range(Unwrap(input[c]).contract_abi) :
            Unwrap(input[c]).method_name = abi_signature(f) => function[c] = Some(f)

\* A call by the signature of the second of two overloads resolved to it.
C2_Witness ==
    /\ IsSome(input[1])
    /\ Unwrap(input[1]).contract_abi = AbiOverloaded
    /\ Unwrap(input[1]).method_name = "transfer(address)"
    /\ function[1] = Some(FnTransfer1)
    /\ Cardinality(Named(AbiOverloaded, "transfer")) = 2

\* C3: the requests of calls suspended at the same time carry pairwise
\* distinct request ids, as long as the counter has not handed out more ids
\* than it has values (no id has been handed out twice).
C3_InFlightIdsDistinct ==
    generated <= IdModulus =>
        \A c1, c2 \in Suspended :
            c1 # c2 => RequestOf(c1).request_id # RequestOf(c2).request_id

\* Two calls are suspended at the await, before any wraparound.
C3_Witness ==
    /\ generated <= IdModulus
    /\ pc[1] = "AwaitingResponse"
    /\ pc[2] = "Decoding"
    /\ RequestOf(1).request_id = 1
    /\ RequestOf(2).request_id = 0

\* C4: the counter starts at 0; each invocation of generate_request_id returns
\* the value the counter holds and stores that value plus one, wrapping from
\* the largest value to 0; so the k-th invocation returns (k - 1) modulo the
\* number of counter values, and the id is the one the call's request carries.
C4_CounterSequence ==
    /\ REQUEST_ID = 0
    /\ generated = 0
    /\ [][ /\ generated' \in { generated, generated + 1 }
           /\ generated' = generated => REQUEST_ID' = REQUEST_ID
           /\ generated' = generated + 1 =>
                /\ REQUEST_ID = generated % IdModulus
                /\ REQUEST_ID' = IF REQUEST_ID = IdModulus - 1 THEN 0 ELSE REQUEST_ID + 1
                /\ \A c \in Slots :
                     (http'[c] # http[c] /\ IsSome(http'[c])) =>
                        Unwrap(Unwrap(http'[c]).body).request_id = (generated' - 1) % IdModulus
         ]_vars

\* The counter has wrapped: the third id handed out is 0 again.
C4_Witness ==
    /\ generated = IdModulus + 1
    /\ REQUEST_ID = 1
    /\ \E c \in Slots : pc[c] = "AwaitingResponse" /\ RequestOf(c).request_id = 0

\* C5: the response the transform returns has the status and the body of the
\* raw response and no headers, and the transform returns one for every raw
\* response.
C5_TransformKeepsStatusAndBody ==
    \A c \in Slots :
        /\ pc[c] = "Transforming" => ENABLED HostTransform(c)
        /\ IsSome(response[c]) =>
             /\ Unwrap(response[c]).status = Unwrap(raw[c]).status
             /\ Unwrap(response[c]).body = Unwrap(raw[c]).body
             /\ Unwrap(response[c]).headers = << >>

\* A raw response with headers and an error status went through the transform.
C5_Witness ==
    /\ IsSome(response[1])
    /\ Unwrap(raw[1]).status = 500
    /\ Len(Unwrap(raw[1]).headers) = 2
    /\ Unwrap(raw[1]).body = Body(TRUE, FALSE, RpcResponse(None, None))

\* C6: the transform's output depends on the status and the body of the raw
\* response only.  Whatever raw response a call's response came from, any raw
\* response with the same status and body, under any headers, transforms to
\* that same response, and any raw response with another body transforms to a
\* different one.
C6_TransformIgnoresHeaders ==
    \A c \in Slots :
        IsSome(response[c]) =>
            \A r \in AllResponses :
                /\ (r.status = Unwrap(raw[c]).status /\ r.body = Unwrap(raw[c]).body) =>
                      handle_transform(TransformArgs(r)) = Unwrap(response[c])
                /\ r.body # Unwrap(raw[c]).body =>
                      handle_transform(TransformArgs(r)) # Unwrap(response[c])

\* A response came from a raw response with headers, and the model holds a raw
\* response with the same status and body under other headers, and one with
\* another body.
C6_Witness ==
    /\ IsSome(response[1])
    /\ Len(Unwrap(raw[1]).headers) = 1
    /\ \E r \in AllResponses :
         /\ r.status = Unwrap(raw[1]).status
         /\ r.body = Unwrap(raw[1]).body
         /\ Len(r.headers) = 2
    /\ \E r \in AllResponses : r.body # Unwrap(raw[1]).body

\* The RpcResponse the code parses out of the response a slot's call was given.
ParsedOf(c) == ParseBody(Unwrap(response[c]).body)

\* C7: a call whose parsed response has rpc_error present ends failed with
\* RpcError carrying the error_code and error_message of the response, and has
\* run neither the hex decoding of the outcome nor the ABI output decoder.
C7_RpcErrorReported ==
    \A c \in Ended :
        (IsSome(response[c]) /\ ParsedOf(c).ok /\ IsSome(ParsedOf(c).rpc.rpc_error)) =>
            /\ pc[c] = "Failed"
            /\ Unwrap(result[c]).ok = FALSE
            /\ Unwrap(result[c]).error.kind = "RpcError"
            /\ Unwrap(result[c]).error.code = Unwrap(ParsedOf(c).rpc.rpc_error).error_code
            /\ Unwrap(result[c]).error.message =
                   Unwrap(ParsedOf(c).rpc.rpc_error).error_message
            /\ "from_hex" \notin Range(steps[c])
            /\ "decode_output" \notin Range(steps[c])

\* A call was answered with error -32000 "execution reverted" and no outcome.
C7_Witness ==
    /\ pc[1] = "Failed"
    /\ IsSome(response[1])
    /\ Unwrap(response[1]).body =
           Body(TRUE, TRUE,
                RpcResponse(None, Some(RpcErrorDetail(-32000, "execution reverted"))))
    /\ Unwrap(result[1]).error = Error("RpcError", -32000, "execution reverted", << >>)

\* The hex text of a 32-byte word whose last hex digit is given and whose
\* other digits are 0.
HexWordEnding(digit) == << "0", "x" >> \o [ i \in 1 .. (2 * WordLen - 1) |-> "0" ] \o << digit >>

\* C8: a call answered with a well-formed response that has an outcome and no
\* rpc_error, the outcome being hex text whose bytes decode against the return
\* types of the function the call resolved, ends Done and returns exactly
\* those decoded values; for a function returning one bool and the outcome
\* 0x00..01 of 32 bytes, it returns the boolean true.
C8_OutcomeDecoded ==
    \A c \in Ended :
        (/\ IsSome(response[c])
         /\ ParsedOf(c).ok
         /\ ParsedOf(c).rpc.rpc_error = None
         /\ IsSome(ParsedOf(c).rpc.outcome)) =>
            LET text  == Unwrap(ParsedOf(c).rpc.outcome)
                bytes == from_hex(text)
                func  == Unwrap(function[c])
            IN  /\ (bytes.ok /\ decode(func.outputs, bytes.bytes).ok) =>
                     /\ pc[c] = "Done"
                     /\ result[c] = Some(Returned(decode(func.outputs, bytes.bytes).tokens))
                     /\ Len(Unwrap(result[c]).values) = Len(func.outputs)
                /\ (func.outputs = << "bool" >> /\ text = HexWordEnding("1")) =>
                     /\ pc[c] = "Done"
                     /\ Unwrap(result[c]).values = << TokenBool(TRUE) >>

\* A call of a function returning one bool was answered 0x00..01 and is Done.
C8_Witness ==
    /\ pc[1] = "Done"
    /\ Unwrap(function[1]) = FnPaused
    /\ Unwrap(response[1]).body =
           Body(TRUE, TRUE, RpcResponse(Some(HexWordEnding("1")), None))
    /\ Unwrap(result[1]).values = << TokenBool(TRUE) >>

\* The slots whose call has run determine_rpc_url.
Resolved == { c \in Slots : "url" \in Range(steps[c]) }

\* C9: network resolution is a lookup over a closed set.  A call that reaches
\* it with "mainnet", "ethereum", "goerli" or "sepolia" gets the URL fixed for
\* that identifier, an https:// URL; with any other identifier it fails with
\* UnsupportedNetwork and has no URL.
C9_NetworkLookup ==
    \A c \in Resolved :
        LET network == Unwrap(input[c]).network
            r       == determine_rpc_url(network)
        IN  IF network \in { "mainnet", "ethereum", "goerli", "sepolia" }
            THEN /\ IsSome(http[c])
                 /\ r.ok
                 /\ r.url[1] \o r.url[2] = "https://"
                 /\ Unwrap(http[c]).url = UrlText(r.url)
                 /\ Unwrap(http[c]).url =
                        CASE network \in { "mainnet", "ethereum" } ->
                                "https://cloudflare-eth.com/v1/mainnet"
                          [] network = "goerli" -> "https://ethereum-goerli.publicnode.com"
                          [] network = "sepolia" -> "https://rpc.sepolia.org"
            ELSE /\ http[c] = None
                 /\ pc[c] = "Failed"
                 /\ Unwrap(result[c]).error = Failure("UnsupportedNetwork")

\* A call on "Mainnet", which is no recognized identifier, has failed.
C9_Witness ==
    /\ 1 \in Resolved
    /\ Unwrap(input[1]).network = "Mainnet"
    /\ http[1] = None
    /\ Unwrap(result[1]).error.kind = "UnsupportedNetwork"

\* C10: every request a call has sent has version "2.0", action "eth_call"
\* and block tag "latest", its recipient is the address the call was given and
\* its payload is the hex text of the call's ABI-encoded arguments: "0x", the
\* selector of the resolved function, one word per argument.
C10_RequestShape ==
    \A c \in Slots :
        IsSome(http[c]) =>
            LET req  == RequestOf(c)
                in   == Unwrap(input[c])
                func == Unwrap(function[c])
            IN  /\ req.version = "2.0"
                /\ req.action = "eth_call"
                /\ Len(req.parameters) = 2
                /\ req.parameters[2] = "latest"
                /\ req.parameters[1].recipient = in.address
                /\ req.parameters[1].payload = to_hex(encode_input(func, in.arguments).bytes)
                /\ Len(req.parameters[1].payload) = 2 + 2 * (4 + WordLen * Len(in.arguments))
                /\ func = FnPaused =>
                     req.parameters[1].payload =
                         << "0", "x", "5", "c", "9", "7", "5", "a", "b", "b" >>

\* A call with two arguments to the second contract address has sent its
\* request.
C10_Witness ==
    /\ pc[1] = "AwaitingResponse"
    /\ Unwrap(input[1]).arguments = << TokenAddress(Account(2)), TokenUint(Word(7)) >>
    /\ RequestOf(1).parameters[1].recipient = AddressA
    /\ Len(RequestOf(1).parameters[1].payload) = 138

\* The slots whose call was resumed with a response that parsed.
Parsed == { c \in Ended : IsSome(response[c]) /\ ParsedOf(c).ok }

\* C11: a parsed response in which both outcome and rpc_error are populated
\* is a malformed response: the call fails with MalformedResponse, it is not
\* reported as RpcError, and its outcome is not decoded.
C11_BothPopulatedIsMalformed ==
    \A c \in Parsed :
        (IsSome(ParsedOf(c).rpc.outcome) /\ IsSome(ParsedOf(c).rpc.rpc_error)) =>
            /\ pc[c] = "Failed"
            /\ Unwrap(result[c]).error.kind = "MalformedResponse"
            /\ Unwrap(result[c]).error.kind # "RpcError"
            /\ "from_hex" \notin Range(steps[c])
            /\ "decode_output" \notin Range(steps[c])

\* C12: a parsed response carrying neither rpc_error nor outcome makes the
\* call fail with MissingOutcome; the decoder of return values is never
\* invoked for it and the call returns no value.
C12_MissingOutcome ==
    \A c \in Parsed :
        (ParsedOf(c).rpc.outcome = None /\ ParsedOf(c).rpc.rpc_error = None) =>
            /\ pc[c] = "Failed"
            /\ ~ Unwrap(result[c]).ok
            /\ Unwrap(result[c]).values = << >>
            /\ Unwrap(result[c]).error = Failure("MissingOutcome")
            /\ "from_hex" \notin Range(steps[c])
            /\ "decode_output" \notin Range(steps[c])

C12_Witness ==
    \E c \in Parsed :
        /\ ParsedOf(c).rpc = RpcResponse(None, None)
        /\ Unwrap(function[c]) = FnBalanceOf
        /\ Unwrap(result[c]).error.kind = "MissingOutcome"

\* How many times a step occurs among the steps a call has taken.
Count(taken, step) == Cardinality({ i \in 1 .. Len(taken) : taken[i] = step })

\* Lines 85-123 succeed for the inputs of a call: the function resolves, the
\* arguments encode and the network is supported.
BuildingSucceeds(in) ==
    /\ ResolveFunction(in.contract_abi, in.method_name).ok
    /\ encode_input(Unwrap(ResolveFunction(in.contract_abi, in.method_name).func),
                    in.arguments).ok
    /\ determine_rpc_url(in.network).ok

\* C13: a call issues exactly one HTTP request when Building succeeds and
\* none when a Building step fails; it never issues a second one, whatever
\* the host answers (no retry), and a call whose inputs equal those of
\* another call still issues a request of its own (no caching).
C13_OneRequestPerCall ==
    \A c \in Started :
        /\ Count(steps[c], "send") = IF BuildingSucceeds(Unwrap(input[c])) THEN 1 ELSE 0
        /\ IsSome(http[c]) <=> BuildingSucceeds(Unwrap(input[c]))
        /\ \A d \in Started \ { c } :
               (input[d] = input[c] /\ BuildingSucceeds(Unwrap(input[c]))) =>
                   /\ Count(steps[d], "send") = 1
                   /\ IsSome(http[d])

C13_Witness ==
    \E c \in Ended, d \in Suspended :
        /\ input[c] = input[d]
        /\ pc[c] = "Done"
        /\ Count(steps[c], "send") = 1
        /\ Count(steps[d], "send") = 1
        /\ RequestOf(d).request_id # RequestOf(c).request_id

\* C14: the steps of Building run in the order network URL, function,
\* argument encoding, envelope with a fresh request id, and the first step
\* to fail decides the error: a call whose network is unsupported fails with
\* UnsupportedNetwork whatever its method name and arguments, before any
\* request id is drawn.
C14_NetworkResolvedFirst ==
    \A c \in Started :
        LET in  == Unwrap(input[c])
            rf  == ResolveFunction(in.contract_abi, in.method_name)
            enc == encode_input(Unwrap(rf.func), in.arguments)
        IN  IF ~ determine_rpc_url(in.network).ok
            THEN /\ pc[c] = "Failed"
                 /\ Unwrap(result[c]).error.kind = "UnsupportedNetwork"
                 /\ "request_id" \notin Range(steps[c])
                 /\ "resolve" \notin Range(steps[c])
            ELSE IF ~ rf.ok
            THEN pc[c] = "Failed" /\ Unwrap(result[c]).error = rf.error
            ELSE IF ~ enc.ok
            THEN pc[c] = "Failed" /\ Unwrap(result[c]).error.kind = "EncodingError"
            ELSE "request_id" \in Range(steps[c]) /\ IsSome(http[c])

\* The moves of a call between the positions of the spec's state list.
\* Building and Sending are lines 85-150, run without suspension from Idle;
\* Idle is a slot no call holds.
Moves ==
    { << "Idle", "AwaitingResponse" >>, << "Idle", "Failed" >>,
      << "AwaitingResponse", "Transforming" >>, << "AwaitingResponse", "Failed" >>,
      << "Transforming", "Decoding" >>,
      << "Decoding", "Done" >>, << "Decoding", "Failed" >>,
      << "Done", "Idle" >>, << "Failed", "Idle" >> }

\* What a slot holds of its call.
SlotState(c) ==
    << input[c], function[c], http[c], raw[c], response[c], result[c], steps[c] >>

\* The return data of a slot's response decodes against the slot's function.
DecodesTo(c) ==
    LET rpc == ParsedOf(c).rpc
    IN  IF /\ ParsedOf(c).ok
           /\ IsSome(rpc.outcome)
           /\ from_hex(Unwrap(rpc.outcome)).ok
        THEN decode_output(Unwrap(function[c]), from_hex(Unwrap(rpc.outcome)).bytes)
        ELSE [ ok |-> FALSE, tokens |-> << >> ]

\* C15: a call passes through its states only in the order Building,
\* Sending, AwaitingResponse, Transforming, Decoding, Done, with Failed
\* reached from a non-terminal state.  The body is parsed and decoded only
\* after the host has returned a successful, transformed response to the
\* call's own request; Done is entered only when the return data decoded; a
\* transport failure ends the call in Failed with nothing parsed or decoded;
\* Done and Failed are terminal: the call does nothing more.
C15_StateOrder ==
    /\ [](\A c \in Slots :
            /\ "parse" \in Range(steps[c]) =>
                   /\ IsSome(http[c]) /\ IsSome(raw[c])
                   /\ response[c] = Some(handle_transform(TransformArgs(Unwrap(raw[c]))))
                   /\ pc[c] \in { "Done", "Failed" }
            /\ pc[c] = "Done" =>
                   /\ DecodesTo(c).ok
                   /\ result[c] = Some(Returned(DecodesTo(c).tokens))
                   /\ steps[c] = << "resolve", "encode", "request_id", "url", "send",
                                    "parse", "from_hex", "decode_output" >>
            /\ (IsSome(result[c]) /\ Unwrap(result[c]).error.kind = "HttpTransportError") =>
                   /\ pc[c] = "Failed"
                   /\ response[c] = None
                   /\ steps[c] = << "resolve", "encode", "request_id", "url", "send" >>
            /\ pc[c] \in { "AwaitingResponse", "Transforming", "Decoding" } =>
                   /\ result[c] = None
                   /\ steps[c] = << "resolve", "encode", "request_id", "url", "send" >>)
    /\ [][\A c \in Slots :
            /\ pc'[c] # pc[c] => << pc[c], pc'[c] >> \in Moves
            /\ pc[c] \in { "Done", "Failed" } =>
                   \/ SlotState(c)' = SlotState(c) /\ pc'[c] = pc[c]
                   \/ pc'[c] = "Idle" /\ result'[c] = None /\ steps'[c] = << >>]_vars

C15_Witness ==
    /\ pc[1] = "Done"
    /\ Unwrap(function[1]) = FnPaused
    /\ Unwrap(result[1]).values = << TokenBool(FALSE) >>

\* The four ways a call that has sent its request ends.
Success(c) ==
    /\ pc[c] = "Done"
    /\ Unwrap(result[c]).ok
    /\ IsSome(response[c]) /\ ParsedOf(c).ok
    /\ ParsedOf(c).rpc.rpc_error = None
    /\ DecodesTo(c).ok

RemoteError(c) ==
    /\ pc[c] = "Failed"
    /\ Unwrap(result[c]).error.kind = "RpcError"
    /\ IsSome(response[c]) /\ ParsedOf(c).ok
    /\ IsSome(ParsedOf(c).rpc.rpc_error)

TransportError(c) ==
    /\ pc[c] = "Failed"
    /\ Unwrap(result[c]).error.kind = "HttpTransportError"
    /\ response[c] = None

\* The response cannot be read as a result: no UTF-8 or JSON, no outcome
\* and no error, an outcome that is no hex text or return data that does not
\* decode.
MalformedOutcome(c) ==
    /\ pc[c] = "Failed"
    /\ Unwrap(result[c]).error.kind \in
           { "MalformedResponse", "MissingOutcome", "InvalidHex", "DecodingError" }
    /\ IsSome(response[c])
    /\ \/ ~ ParsedOf(c).ok
       \/ ParsedOf(c).rpc.rpc_error = None /\ ~ DecodesTo(c).ok

\* C16: once its request is sent, a call ends in exactly one of four ways:
\* success with the decoded values, remote error (RpcError), transport error
\* (HttpTransportError) or malformed response.  No other end is reachable,
\* and a call that waits for its response is never cancelled: it keeps its
\* request and leaves the wait only for one of these ends.
C16_FourOutcomes ==
    /\ [](\A c \in Ended :
            "send" \in Range(steps[c]) =>
                Cardinality({ k \in 1 .. 4 :
                                \/ k = 1 /\ Success(c)
                                \/ k = 2 /\ RemoteError(c)
                                \/ k = 3 /\ TransportError(c)
                                \/ k = 4 /\ MalformedOutcome(c) }) = 1)
    /\ [][\A c \in Suspended :
            /\ pc'[c] # "Idle"
            /\ http'[c] = http[c] /\ input'[c] = input[c]
            /\ IsSome(result'[c]) <=> pc'[c] \in { "Done", "Failed" }]_vars

C16_Witness ==
    \E c \in Ended :
        /\ "send" \in Range(steps[c])
        /\ MalformedOutcome(c)
        /\ Unwrap(result[c]).error.kind = "DecodingError"
        /\ ParsedOf(c).rpc.outcome = Some(<< "0", "x" >>)

\* C17: if the host eventually answers every request it accepted, with a
\* result or with an error, every call eventually reaches Done or Failed: it
\* does not stay suspended once the host has answered, and it does not loop.
C17_EventuallyEnds ==
    \A c \in Slots : (pc[c] # "Idle") ~> (pc[c] \in { "Done", "Failed" })

C17_Witness ==
    \E c, d \in Slots :
        /\ c # d
        /\ pc[c] = "Done"
        /\ pc[d] = "Failed"
        /\ Unwrap(result[d]).error.kind = "HttpTransportError"

\* What a call that has ended returns, computed from the call's own inputs
\* and the response to its own request alone.
OwnResult(c) ==
    LET in == Unwrap(input[c])
        rf == ResolveFunction(in.contract_abi, in.method_name)
    IN  IF ~ BuildingSucceeds(in)
        THEN Unwrap(Building(in, 0).result)
        ELSE IF IsSome(response[c])
        THEN Decoding(Unwrap(rf.func), Unwrap(response[c])).result
        ELSE Unwrap(result[c])

\* C18: concurrent calls are independent.  What a call returns is determined
\* by its own inputs and the response to its own request, whatever other
\* calls are in flight and however their steps interleave with its own; the
\* function it decodes with is the one its own Building resolved; a step of
\* one call changes nothing of another call: the calls share only the
\* request id counter.
C18_CallsIndependent ==
    /\ [](\A c \in Started :
            /\ IsSome(function[c]) =>
                   function[c] = ResolveFunction(Unwrap(input[c]).contract_abi,
                                                 Unwrap(input[c]).method_name).func
            /\ IsSome(response[c]) =>
                   response[c] = Some(handle_transform(TransformArgs(Unwrap(raw[c]))))
            /\ c \in Ended =>
                   /\ Unwrap(result[c]) = OwnResult(c)
                   /\ IsSome(response[c]) \/ ~ BuildingSucceeds(Unwrap(input[c]))
                          \/ Unwrap(result[c]).error.kind = "HttpTransportError")
    /\ [][\A c \in Slots : \A d \in Slots \ { c } :
            (SlotState(c)' # SlotState(c) \/ pc'[c] # pc[c]) =>
                (SlotState(d)' = SlotState(d) /\ pc'[d] = pc[d])]_vars

C18_Witness ==
    \E c \in Ended, d \in Ended :
        /\ c # d
        /\ pc[c] = "Done" /\ pc[d] = "Done"
        /\ raw[c] = raw[d]
        /\ Unwrap(function[c]) = FnTotalSupply
        /\ Unwrap(function[d]) = FnPaused
        /\ Unwrap(result[c]).values = << TokenUint(Word(1)) >>
        /\ Unwrap(result[d]).values = << TokenBool(TRUE) >>
        /\ RequestOf(c).request_id > RequestOf(d).request_id

\* C19: handle_transform touches no call-specific and no process state.
\* Invoked at any point between the steps of any calls, any number of times,
\* it leaves the request id counter and the state of every call in flight
\* as they were, and what it returns is the status and body of its argument
\* with no headers, the same whatever the counter holds.
C19_TransformTouchesNothing ==
    /\ [](IsSome(reply) =>
            Unwrap(reply).out =
                HttpResponse(Unwrap(reply).args.response.status, << >>,
                             Unwrap(reply).args.response.body))
    /\ [][reply' # reply =>
            /\ REQUEST_ID' = REQUEST_ID /\ generated' = generated
            /\ \A c \in Slots : SlotState(c)' = SlotState(c) /\ pc'[c] = pc[c]]_vars

C19_Witness ==
    /\ IsSome(reply)
    /\ Unwrap(reply).args.response.status = 500
    /\ Unwrap(reply).out.headers = << >>
    /\ REQUEST_ID = 1
    /\ generated = 3
    /\ pc[1] = "AwaitingResponse"
    /\ pc[2] = "Decoding"

\* Function resolution and argument encoding succeed for the inputs of a call.
ResolvesAndEncodes(in) ==
    /\ ResolveFunction(in.contract_abi, in.method_name).ok
    /\ encode_input(Unwrap(ResolveFunction(in.contract_abi, in.method_name).func),
                    in.arguments).ok

\* A step changes what a slot holds or where its call is.
Moved(c) == pc'[c] # pc[c] \/ SlotState(c)' # SlotState(c)

\* C20: a call advances the request id counter by exactly one,
\* synchronously, before its request is sent and never again, if and only if
\* its function resolves and its arguments encode (then also when the
\* network proves unsupported); a call failing at resolution or encoding
\* leaves the counter as it found it, and nothing a call does after the
\* await changes the counter.
C20_CounterAdvance ==
    /\ [](\A c \in Started :
            /\ Count(steps[c], "request_id") =
                   IF ResolvesAndEncodes(Unwrap(input[c])) THEN 1 ELSE 0
            /\ \A i, j \in 1 .. Len(steps[c]) :
                   (steps[c][i] = "request_id" /\ steps[c][j] = "send") => i < j)
    /\ [][/\ \A c \in Slots :
               (pc[c] = "Idle" /\ Moved(c)) =>
                   IF ResolvesAndEncodes(Unwrap(input'[c]))
                   THEN /\ REQUEST_ID' = (REQUEST_ID + 1) % IdModulus
                        /\ generated' = generated + 1
                   ELSE /\ REQUEST_ID' = REQUEST_ID
                        /\ generated' = generated
          /\ (\A c \in Slots : pc[c] = "Idle" => ~ Moved(c)) =>
                 /\ REQUEST_ID' = REQUEST_ID
                 /\ generated' = generated]_vars

C20_Witness ==
    \E c \in Slots :
        /\ pc[c] = "Failed"
        /\ Unwrap(result[c]).error.kind = "UnsupportedNetwork"
        /\ steps[c] = << "resolve", "encode", "request_id", "url" >>
        /\ REQUEST_ID = 1
        /\ generated = 1
        /\ \A d \in Slots \ { c } : pc[d] = "Idle"

====
